---- MODULE Spec2Model ----
(***************************************************************************)
(* A model of src/app.py, the stoichiometric calculator: the engine        *)
(* process_stoichiometry, executed statement group by statement group,     *)
(* and its two Flask callers, index ("/") and download_csv ("/download"). *)
(*                                                                         *)
(* Text is a sequence of one-character strings, so that split, strip and   *)
(* the numeric parsers are computed, not assumed.  A float is a pair       *)
(* <<n, d>>: a reduced fraction with d > 0, or, with d = 0, one of the     *)
(* three non-finite values a division by zero produces (<<0,0>> is NaN,    *)
(* <<1,0>> is +inf, <<-1,0>> is -inf).  Arithmetic is exact: binary        *)
(* rounding is not modelled.                                               *)
(***************************************************************************)
EXTENDS Integers, Sequences, FiniteSets, TLC

\* ------------------------------------------------------------------ bounds

\* The longest comparison list (tokens between commas) a request carries.
MaxComp == 2
\* The number of requests the server handles concurrently.
NumWorkers == 2
\* The number of species rows the form posts (for i in range(4)).
NumSpecies == 4

Workers == 1..NumWorkers
Rows == 1..NumSpecies

\* ------------------------------------------------------------------ floats

NaN == <<0, 0>>
PosInf == <<1, 0>>
NegInf == <<-1, 0>>
Zero == <<0, 1>>

IsFinite(a) == a[2] # 0

Abs(i) == IF i < 0 THEN -i ELSE i

RECURSIVE Gcd(_, _)
Gcd(a, b) == IF b = 0 THEN a ELSE Gcd(b, a % b)

\* The reduced fraction n/d (d # 0) with a positive denominator.
Norm(n, d) ==
  LET g == Gcd(Abs(n), Abs(d))
      s == IF d < 0 THEN -1 ELSE 1
  IN  <<(s * n) \div g, (s * d) \div g>>

\* a + b, a * b, abs(a) on finite values.
FAdd(a, b) == Norm(a[1] * b[2] + b[1] * a[2], a[2] * b[2])
FMul(a, b) == Norm(a[1] * b[1], a[2] * b[2])
FAbs(a) == <<Abs(a[1]), a[2]>>

\* a / b as numpy divides floats: a zero divisor raises nothing, x/0 is
\* +-inf by the sign of x and 0/0 is NaN.
FDiv(a, b) ==
  IF b[1] = 0
  THEN (IF a[1] = 0 THEN NaN ELSE IF a[1] > 0 THEN PosInf ELSE NegInf)
  ELSE Norm(a[1] * b[2], a[2] * b[1])

RECURSIVE FSum(_)
FSum(s) == IF s = <<>> THEN Zero ELSE FAdd(Head(s), FSum(Tail(s)))

\* -------------------------------------------------------------------- text

DigitChars == <<"0", "1", "2", "3", "4", "5", "6", "7", "8", "9">>
IsDigit(c) == \E i \in 1..Len(DigitChars) : DigitChars[i] = c
DigitVal(c) == (CHOOSE i \in 1..Len(DigitChars) : DigitChars[i] = c) - 1

\* str.strip(): leading and trailing blanks removed.
RECURSIVE LStrip(_)
LStrip(s) == IF s # <<>> /\ Head(s) = " " THEN LStrip(Tail(s)) ELSE s
RECURSIVE RStrip(_)
RStrip(s) ==
  IF s # <<>> /\ s[Len(s)] = " " THEN RStrip(SubSeq(s, 1, Len(s) - 1)) ELSE s
Strip(s) == RStrip(LStrip(s))

\* str.split(","): the pieces between the separators, empty pieces kept;
\* the empty text splits into one empty piece.
RECURSIVE SplitFrom(_, _, _)
SplitFrom(s, sep, cur) ==
  IF s = <<>> THEN <<cur>>
  ELSE IF Head(s) = sep THEN <<cur>> \o SplitFrom(Tail(s), sep, <<>>)
  ELSE SplitFrom(Tail(s), sep, Append(cur, Head(s)))
Split(s, sep) == SplitFrom(s, sep, <<>>)

RECURSIVE Pow10(_)
Pow10(k) == IF k = 0 THEN 1 ELSE 10 * Pow10(k - 1)

RECURSIVE DigitsVal(_)
DigitsVal(s) ==
  IF s = <<>> THEN 0 ELSE 10 * DigitsVal(SubSeq(s, 1, Len(s) - 1)) + DigitVal(s[Len(s)])

Unsigned(t) == IF t # <<>> /\ Head(t) \in {"+", "-"} THEN Tail(t) ELSE t
SignOf(t) == IF t # <<>> /\ Head(t) = "-" THEN -1 ELSE 1
Without(s, c) == SelectSeq(s, LAMBDA x : x # c)

\* float(text) on decimal literals: blanks stripped, an optional sign, digits
\* with at most one point and at least one digit.  (Exponents, underscores,
\* "inf" and "nan" are outside the alphabet of the requests drawn here.)
FloatOk(s) ==
  LET b == Unsigned(Strip(s))
      ds == Without(b, ".")
  IN  /\ Len(ds) >= 1
      /\ Len(b) - Len(ds) <= 1
      /\ \A i \in 1..Len(ds) : IsDigit(ds[i])
FloatVal(s) ==
  LET t == Strip(s)
      b == Unsigned(t)
      ds == Without(b, ".")
      p == CHOOSE i \in 1..(Len(b) + 1) : i = Len(b) + 1 \/ b[i] = "."
      frac == IF p > Len(b) THEN 0 ELSE Len(b) - p
  IN  Norm(SignOf(t) * DigitsVal(ds), Pow10(frac))

\* int(text): blanks stripped, an optional sign, one or more digits.
IntOk(s) ==
  LET b == Unsigned(Strip(s))
  IN  Len(b) >= 1 /\ \A i \in 1..Len(b) : IsDigit(b[i])
IntVal(s) == SignOf(Strip(s)) * DigitsVal(Unsigned(Strip(s)))

\* str(int).
RECURSIVE NatStr(_)
NatStr(n) ==
  IF n < 10 THEN <<DigitChars[n + 1]>>
  ELSE Append(NatStr(n \div 10), DigitChars[(n % 10) + 1])
IntStr(i) == IF i < 0 THEN <<"-">> \o NatStr(-i) ELSE NatStr(i)

\* The digits of n over k decimal places, zero padded.
RECURSIVE FracStr(_, _)
FracStr(n, k) ==
  IF k = 0 THEN <<>> ELSE Append(FracStr(n \div 10, k - 1), DigitChars[(n % 10) + 1])

\* The least k with d dividing 10^k (d is a product of twos and fives).
RECURSIVE Places(_, _)
Places(d, k) == IF Pow10(k) % d = 0 THEN k ELSE Places(d, k + 1)

\* str(float) of a finite decimal value, as an f-string renders it: the
\* shortest decimal that reads back, always with a fractional part.
FloatStr(a) ==
  LET k == IF a[2] = 1 THEN 1 ELSE Places(a[2], 1)
      m == (Abs(a[1]) * Pow10(k)) \div a[2]
  IN  (IF a[1] < 0 THEN <<"-">> ELSE <<>>)
        \o NatStr(m \div Pow10(k)) \o <<".">> \o FracStr(m % Pow10(k), k)

\* -------------------------------------------------------------- data frames

\* A pandas DataFrame: its labelled columns in order, each a sequence of one
\* value per row.  A label is <<fixed text, formatted part>>.
Label(name) == <<name, <<>>>>
ColSpecies == Label("Species")
ColNu == Label("Coefficient (nu)")
ColN0 == Label("Initial Feed (mol)")
ColMw == Label("Molar Mass (g/mol)")
ColChange == Label("Change (mol)")
ColFinal == Label("Final Flow (mol)")
ColMoleFrac == Label("Mole Fraction")
ColMass == Label("Final Mass (g)")
ColMassFrac == Label("Mass Fraction")
ColInitial == Label("Initial Feed")
\* f"X = {x}"
ColX(x) == <<"X = ", FloatStr(x)>>

Labels(frame) == [i \in 1..Len(frame) |-> frame[i][1]]
HasCol(frame, label) == \E i \in 1..Len(frame) : frame[i][1] = label
GetCol(frame, label) ==
  frame[CHOOSE i \in 1..Len(frame) : frame[i][1] = label][2]

\* frame[label] = values: an existing label is assigned in place, a new
\* one is appended as the last column.
SetCol(frame, label, values) ==
  IF HasCol(frame, label)
  THEN [i \in 1..Len(frame) |->
          IF frame[i][1] = label THEN <<label, values>> ELSE frame[i]]
  ELSE Append(frame, <<label, values>>)

\* An optional value: a local not yet bound, a lookup that found nothing.
None == <<>>
Some(v) == <<v>>

\* The wrap-around lookup of positional indexing (iloc, a Python list): a
\* negative position counts from the end.
ILoc(frame, idx, label) ==
  LET col == GetCol(frame, label)
  IN  IF idx \in 0..(Len(col) - 1) THEN Some(col[idx + 1])
      ELSE IF idx \in (-Len(col))..(-1) THEN Some(col[Len(col) + idx + 1])
      ELSE None

\* frame.loc[idx, label] over the default RangeIndex: idx is a row label,
\* one of 0..len-1, and any other raises KeyError (None here).
Loc(frame, idx, label) ==
  LET col == GetCol(frame, label)
  IN  IF idx \in 0..(Len(col) - 1) THEN Some(col[idx + 1]) ELSE None

\* ------------------------------------------------------------- exceptions

\* A raised exception: its Python class, the fixed part of its message and
\* the part quoted from the input (the offending text, the missing key).
Err(type, msg, arg) == [type |-> type, msg |-> msg, arg |-> arg]
NoErr == Err("", "", <<>>)
MsgLimiting == "The limiting reactant must have a negative coefficient."
MsgToNumeric == "Unable to parse string"
MsgInt == "invalid literal for int() with base 10"
MsgFloat == "could not convert string to float"

\* --------------------------------------------------- process_stoichiometry

\* pd.to_numeric(list of texts): every cell must read as a number.
NumericOk(texts) == \A i \in 1..Len(texts) : FloatOk(texts[i])
NumericVals(texts) == [i \in 1..Len(texts) |-> FloatVal(texts[i])]
FirstBad(texts) ==
  texts[CHOOSE i \in 1..Len(texts) :
          ~FloatOk(texts[i]) /\ \A j \in 1..(i - 1) : FloatOk(texts[j])]

\* Lines 120-125: the frame of the four posted columns, or the ValueError of
\* the first column, in the order nu, n0, mw, that does not parse.
FrameError(form) ==
  IF ~NumericOk(form.nu) THEN Err("ValueError", MsgToNumeric, FirstBad(form.nu))
  ELSE IF ~NumericOk(form.n0) THEN Err("ValueError", MsgToNumeric, FirstBad(form.n0))
  ELSE IF ~NumericOk(form.mw) THEN Err("ValueError", MsgToNumeric, FirstBad(form.mw))
  ELSE NoErr
InputFrame(form) ==
  << <<ColSpecies, form.species>>,
     <<ColNu, NumericVals(form.nu)>>,
     <<ColN0, NumericVals(form.n0)>>,
     <<ColMw, NumericVals(form.mw)>> >>

\* Line 134, mutated: a zero coefficient is let through.
PositiveOnly(nu) == nu[1] > 0
\* Line 134: nu_lim >= 0.
NotNegative(nu) == nu[1] >= 0

\* Line 137, mutated: the conversion is left out of the extent.
XiNoConversion(n0l, conv, nul) == FDiv(n0l, FAbs(nul))
\* Lines 137 and 150: (n0_lim * conversion) / abs(nu_lim).
Extent(n0l, conv, nul) == FDiv(FMul(n0l, conv), FAbs(nul))

\* Line 140, mutated: the change is subtracted.
FlowMinus(n0, change) == [i \in 1..Len(n0) |-> FAdd(n0[i], FMul(<<-1, 1>>, change[i]))]
\* Line 139: df[nu] * xi, and line 140: df[n0] + df[change].
Scaled(col, k) == [i \in 1..Len(col) |-> FMul(col[i], k)]
Plus(a, b) == [i \in 1..Len(a) |-> FAdd(a[i], b[i])]
Times(a, b) == [i \in 1..Len(a) |-> FMul(a[i], b[i])]

\* Lines 142 and 144, mutated: a zero total is special-cased to fraction 0.
ShareGuarded(col) ==
  IF FSum(col) = Zero THEN [i \in 1..Len(col) |-> Zero]
  ELSE [i \in 1..Len(col) |-> FDiv(col[i], FSum(col))]
\* Lines 142 and 144: col / col.sum().
Share(col) == [i \in 1..Len(col) |-> FDiv(col[i], FSum(col))]

\* Lines 139-144: the five derived columns, added in the source's order.
MainFrame(frame, x) ==
  LET f1 == SetCol(frame, ColChange, Scaled(GetCol(frame, ColNu), x))
      f2 == SetCol(f1, ColFinal, Plus(GetCol(f1, ColN0), GetCol(f1, ColChange)))
      f3 == SetCol(f2, ColMoleFrac, Share(GetCol(f2, ColFinal)))
      f4 == SetCol(f3, ColMass, Times(GetCol(f3, ColFinal), GetCol(f3, ColMw)))
  IN  SetCol(f4, ColMassFrac, Share(GetCol(f4, ColMass)))

\* Line 146, mutated: tokens that are not numbers are dropped.
ConvTokensLenient(text) ==
  SelectSeq([i \in 1..Len(Split(text, ",")) |-> Strip(Split(text, ",")[i])], FloatOk)
\* Line 146: the stripped pieces of multi_conv.split(","), each handed to float().
ConvTokens(text) ==
  [i \in 1..Len(Split(text, ",")) |-> Strip(Split(text, ",")[i])]

\* Line 151, mutated: the extent divides by nu_lim, not by its magnitude.
CompColumnSigned(frame, n0l, nul, x) ==
  Plus(GetCol(frame, ColN0), Scaled(GetCol(frame, ColNu), FDiv(FMul(n0l, x), nul)))
\* Lines 150-151: df[n0] + df[nu] * xi_temp.
CompColumn(frame, n0l, nul, x) ==
  Plus(GetCol(frame, ColN0), Scaled(GetCol(frame, ColNu), Extent(n0l, x, nul)))

\* Lines 147-151: comp_df, one column assignment per entry of conv_list.
RECURSIVE CompFrame(_, _, _, _, _)
CompFrame(acc, frame, n0l, nul, xs) ==
  IF xs = <<>> THEN acc
  ELSE CompFrame(SetCol(acc, ColX(Head(xs)), CompColumn(frame, n0l, nul, Head(xs))),
                 frame, n0l, nul, Tail(xs))
CompBase(frame) ==
  << <<ColSpecies, GetCol(frame, ColSpecies)>>, <<ColInitial, GetCol(frame, ColN0)>> >>

\* ----------------------------------------------------------------- requests

\* A form: the posted fields, every one of them text (request.form).
MkForm(species, rows, lim, conv, multi) ==
  [species |-> species,
   nu |-> [i \in 1..Len(rows) |-> rows[i][1]],
   n0 |-> [i \in 1..Len(rows) |-> rows[i][2]],
   mw |-> [i \in 1..Len(rows) |-> rows[i][3]],
   lim_index |-> lim, conversion |-> conv, multi_conv |-> multi]
\* The form of a request that posts nothing (a GET), and an unbound dict.
EmptyForm == MkForm(<<>>, <<>>, <<>>, <<>>, <<>>)

\* Lines 161-169: the values the form is rendered with before any post.
DefaultVals ==
  MkForm(<<"A (Reactant)", "B (Reactant)", "C (Product)", "D (Inert)">>,
         << << <<"-", "1", ".", "0">>, <<"1", "0", "0", ".", "0">>, <<"1", "6", ".", "0">> >>,
            << <<"-", "2", ".", "0">>, <<"2", "5", "0", ".", "0">>, <<"3", "2", ".", "0">> >>,
            << <<"1", ".", "0">>, <<"0", ".", "0">>, <<"4", "4", ".", "0">> >>,
            << <<"0", ".", "0">>, <<"5", "0", ".", "0">>, <<"2", "8", ".", "0">> >> >>,
         <<"1">>, <<"0", ".", "5">>,
         <<"0", ".", "2", ",", " ", "0", ".", "5", ",", " ", "0", ".", "8", ",", " ", "0", ".", "9">>)

\* The texts the requests are drawn from.
tM2 == <<"-", "2">>
tM1 == <<"-", "1">>
t0 == <<"0">>
t1 == <<"1">>
t2 == <<"2">>
tHalf == <<"0", ".", "5">>
tBad == <<"x">>

Names == <<"A", "B", "C", "D">>
\* The rows <<nu, n0, mw>> each position of the table is drawn from.
RowChoices ==
  << { <<tM1, t2, t1>>, <<tM2, t2, t0>>, <<t0, t2, t1>> },
     { <<tM1, t0, t1>>, <<t1, tM2, t1>>, <<tBad, t1, t1>> },
     { <<t1, t0, t1>> },
     { <<t0, t0, t1>>, <<tM1, t1, t2>> } >>
Tables == { t \in [Rows -> UNION { RowChoices[i] : i \in Rows }] :
              \A i \in Rows : t[i] \in RowChoices[i] }
LimTexts == { IntStr(i) : i \in (-1)..(NumSpecies + 1) } \cup { tBad }
ConvTexts == { t0, tHalf, t1, tBad }
\* The pieces a comparison text is joined from with commas.
TokenTexts == { tHalf, <<" ", "1">>, <<>>, tBad }
RECURSIVE Joined(_)
Joined(k) ==
  IF k = 1 THEN TokenTexts
  ELSE { a \o <<",">> \o b : a \in Joined(k - 1), b \in TokenTexts }
CompTexts == UNION { Joined(k) : k \in 1..MaxComp }

EngineForms ==
  { MkForm(Names, t, l, c, m) : t \in Tables, l \in LimTexts, c \in ConvTexts, m \in CompTexts }

\* The forms posted to the two routes: one that computes and one for each
\* way the engine fails (validation, lookup, parse).
RowsPlain == << <<tM1, t2, t1>>, <<tM1, t0, t1>>, <<t1, t0, t1>>, <<t0, t0, t1>> >>
TransportForms ==
  { MkForm(Names, RowsPlain, t1, tHalf, tHalf \o <<",">> \o <<" ", "1">>),
    MkForm(Names, RowsPlain, <<"3">>, tHalf, tHalf),
    MkForm(Names, RowsPlain, t0, tHalf, tHalf),
    MkForm(Names, RowsPlain, t1, tHalf, tHalf \o <<",">>) }

Request(method, path, form) == [method |-> method, path |-> path, form |-> form]
NoRequest == Request("", "", EmptyForm)
TransportRequests ==
  { Request("GET", "/", EmptyForm) }
    \cup { Request("POST", "/", f) : f \in TransportForms }
    \cup { Request("POST", "/download", f) : f \in TransportForms }

\* ---------------------------------------------------------------- responses

\* str(e).
ErrStr(e) == <<e.msg, e.arg>>
Response(kind, vals, tables, error, body) ==
  [kind |-> kind, vals |-> vals, tables |-> tables, error |-> error, body |-> body]
NoResponse == Response("", EmptyForm, <<>>, <<>>, <<>>)
\* render_template_string(HTML_TEMPLATE, vals=..., tables=..., error=...).
Page(vals, tables, error) == Response("page", vals, tables, error, <<>>)
\* frame.to_html(classes=..., float_format=fmt, index=False).
ToHtml(frame, fmt) == <<"table table-striped table-hover", fmt, frame>>
\* frame.to_csv(index=False): header row and full-precision values.
ToCsv(frame) == <<"csv", frame>>
\* An exception no handler caught: Flask answers 500.
ServerError(e) == Response("500", EmptyForm, <<>>, ErrStr(e), <<>>)

\* -------------------------------------------------------------------- state

VARIABLES
  pc,            \* per worker: where its handler stands
  req,           \* per worker: the request it is serving
  current_vals,  \* index's local dict of form values
  df,            \* process_stoichiometry's locals, unbound ones None
  lim_idx,
  conversion,
  nu_lim,
  n0_lim,
  xi,
  conv_list,
  comp_df,
  exc,           \* the exception propagating out of process_stoichiometry
  resp           \* the response returned for req

locals == <<df, lim_idx, conversion, nu_lim, n0_lim, xi, conv_list, comp_df>>
vars == <<pc, req, current_vals, df, lim_idx, conversion, nu_lim, n0_lim, xi,
          conv_list, comp_df, exc, resp>>

Init ==
  /\ pc = [w \in Workers |-> "idle"]
  /\ req = [w \in Workers |-> NoRequest]
  /\ current_vals = [w \in Workers |-> EmptyForm]
  /\ df = [w \in Workers |-> None]
  /\ lim_idx = [w \in Workers |-> None]
  /\ conversion = [w \in Workers |-> None]
  /\ nu_lim = [w \in Workers |-> None]
  /\ n0_lim = [w \in Workers |-> None]
  /\ xi = [w \in Workers |-> None]
  /\ conv_list = [w \in Workers |-> None]
  /\ comp_df = [w \in Workers |-> None]
  /\ exc = [w \in Workers |-> NoErr]
  /\ resp = [w \in Workers |-> NoResponse]

\* raise e: the call is left with e propagating to its caller.  The values
\* its locals held stay readable in the state; no handler reads them.
Raise(w, e) ==
  /\ pc' = [pc EXCEPT ![w] = "raised"]
  /\ exc' = [exc EXCEPT ![w] = e]

\* ------------------------------------------- process_stoichiometry, by steps

\* Lines 120-129: the frame of the posted columns, then int(lim_index) - 1,
\* float(conversion) and the comparison text.
FrameStepError(form) ==
  IF FrameError(form) # NoErr THEN FrameError(form)
  ELSE IF ~IntOk(form.lim_index) THEN Err("ValueError", MsgInt, form.lim_index)
  ELSE IF ~FloatOk(form.conversion) THEN Err("ValueError", MsgFloat, form.conversion)
  ELSE NoErr

ps_BuildFrame(w) ==
  /\ pc[w] = "ps_frame"
  /\ LET form == req[w].form
         e == FrameStepError(form)
     IN  IF e # NoErr
         THEN /\ Raise(w, e)
              /\ UNCHANGED <<df, lim_idx, conversion>>
         ELSE /\ df' = [df EXCEPT ![w] = InputFrame(form)]
              /\ lim_idx' = [lim_idx EXCEPT ![w] = Some(IntVal(form.lim_index) - 1)]
              /\ conversion' = [conversion EXCEPT ![w] = Some(FloatVal(form.conversion))]
              /\ pc' = [pc EXCEPT ![w] = "ps_select"]
              /\ UNCHANGED exc
  /\ UNCHANGED <<req, current_vals, nu_lim, n0_lim, xi, conv_list, comp_df, resp>>

\* Lines 131-135: the limiting row's coefficient and feed, looked up by
\* label, and the check that the coefficient is negative.
ps_SelectLimiting(w) ==
  /\ pc[w] = "ps_select"
  /\ LET nl == Loc(df[w], lim_idx[w][1], ColNu)
         fl == Loc(df[w], lim_idx[w][1], ColN0)
     IN  IF nl = None \/ fl = None
         THEN /\ Raise(w, Err("KeyError", "", IntStr(lim_idx[w][1])))
              /\ UNCHANGED <<nu_lim, n0_lim>>
         ELSE IF NotNegative(nl[1])
         THEN /\ Raise(w, Err("ValueError", MsgLimiting, <<>>))
              /\ UNCHANGED <<nu_lim, n0_lim>>
         ELSE /\ nu_lim' = [nu_lim EXCEPT ![w] = nl]
              /\ n0_lim' = [n0_lim EXCEPT ![w] = fl]
              /\ pc' = [pc EXCEPT ![w] = "ps_main"]
              /\ UNCHANGED exc
  /\ UNCHANGED <<req, current_vals, df, lim_idx, conversion, xi, conv_list, comp_df, resp>>

\* Lines 137-144: the extent of reaction and the five derived columns.
ps_MainTable(w) ==
  /\ pc[w] = "ps_main"
  /\ LET x == Extent(n0_lim[w][1], conversion[w][1], nu_lim[w][1])
     IN  /\ xi' = [xi EXCEPT ![w] = Some(x)]
         /\ df' = [df EXCEPT ![w] = MainFrame(df[w], x)]
  /\ pc' = [pc EXCEPT ![w] = "ps_comp"]
  /\ UNCHANGED <<req, current_vals, lim_idx, conversion, nu_lim, n0_lim, conv_list,
                 comp_df, exc, resp>>

\* Lines 146-153: the comparison list read from the text, comp_df built
\* from it, and both frames returned.
ps_Comparison(w) ==
  /\ pc[w] = "ps_comp"
  /\ LET toks == ConvTokens(req[w].form.multi_conv)
     IN  IF \E i \in 1..Len(toks) : ~FloatOk(toks[i])
         THEN /\ Raise(w, Err("ValueError", MsgFloat, FirstBad(toks)))
              /\ UNCHANGED <<conv_list, comp_df>>
         ELSE /\ conv_list' = [conv_list EXCEPT ![w] = Some(NumericVals(toks))]
              /\ comp_df' = [comp_df EXCEPT ![w] =
                   CompFrame(CompBase(df[w]), df[w], n0_lim[w][1], nu_lim[w][1],
                             NumericVals(toks))]
              /\ pc' = [pc EXCEPT ![w] = "returned"]
              /\ UNCHANGED exc
  /\ UNCHANGED <<req, current_vals, df, lim_idx, conversion, nu_lim, n0_lim, xi, resp>>

\* A direct call process_stoichiometry(form), for any form of EngineForms.
Call(w) ==
  /\ pc[w] = "idle"
  /\ \E form \in EngineForms :
       req' = [req EXCEPT ![w] = Request("CALL", "process_stoichiometry", form)]
  /\ pc' = [pc EXCEPT ![w] = "ps_frame"]
  /\ UNCHANGED <<current_vals, locals, exc, resp>>

\* ------------------------------------------------------------- the handlers

\* Lines 161-169, mutated: the dict outlives the call, so a handler starts
\* from what another handler last stored in it.
StaleVals(w) ==
  IF \E v \in Workers \ {w} : current_vals[v] # EmptyForm
  THEN current_vals[CHOOSE v \in Workers \ {w} : current_vals[v] # EmptyForm]
  ELSE DefaultVals
\* Lines 161-169: current_vals is a dict created in each call of index.
EntryVals(w) == DefaultVals

\* Lines 158-179 and 191: a request routed to "/".  A GET renders the
\* defaults; a POST stores the posted fields in current_vals and calls
\* process_stoichiometry.
index_Begin(w) ==
  /\ pc[w] = "idle"
  /\ \E r \in TransportRequests :
       /\ r.path = "/"
       /\ req' = [req EXCEPT ![w] = r]
       /\ IF r.method = "POST"
          THEN /\ current_vals' = [current_vals EXCEPT ![w] = r.form]
               /\ pc' = [pc EXCEPT ![w] = "ps_frame"]
               /\ UNCHANGED resp
          ELSE /\ current_vals' = [current_vals EXCEPT ![w] = EntryVals(w)]
               /\ resp' = [resp EXCEPT ![w] = Page(EntryVals(w), <<>>, <<>>)]
               /\ pc' = [pc EXCEPT ![w] = "responded"]
  /\ UNCHANGED <<locals, exc>>

\* Lines 183-187: both frames rendered into the page.
index_Render(w) ==
  /\ pc[w] = "returned"
  /\ req[w].path = "/"
  /\ resp' = [resp EXCEPT ![w] =
       Page(current_vals[w],
            <<ToHtml(df[w], "%.3f"), ToHtml(comp_df[w], "%.2f")>>, <<>>)]
  /\ pc' = [pc EXCEPT ![w] = "responded"]
  /\ UNCHANGED <<req, current_vals, locals, exc>>

\* Line 188 and 207, mutated: only ValueError is caught.
CatchesValueError(e) == e.type = "ValueError"
\* Lines 188 and 207: except Exception.
Catches(e) == TRUE

\* Lines 188-189: the page with the error message in place of the tables.
index_Except(w) ==
  /\ pc[w] = "raised"
  /\ req[w].path = "/"
  /\ resp' = [resp EXCEPT ![w] =
       IF Catches(exc[w]) THEN Page(current_vals[w], <<>>, ErrStr(exc[w]))
       ELSE ServerError(exc[w])]
  /\ pc' = [pc EXCEPT ![w] = "responded"]
  /\ UNCHANGED <<req, current_vals, locals, exc>>

\* Lines 193-197: a request routed to "/download"; the engine is called on
\* the posted fields.
download_Begin(w) ==
  /\ pc[w] = "idle"
  /\ \E r \in TransportRequests :
       /\ r.path = "/download"
       /\ req' = [req EXCEPT ![w] = r]
  /\ pc' = [pc EXCEPT ![w] = "ps_frame"]
  /\ UNCHANGED <<current_vals, locals, exc, resp>>

\* Lines 199-206: the main frame as a CSV attachment.
download_Respond(w) ==
  /\ pc[w] = "returned"
  /\ req[w].path = "/download"
  /\ resp' = [resp EXCEPT ![w] = Response("csv", EmptyForm, <<>>, <<>>, ToCsv(df[w]))]
  /\ pc' = [pc EXCEPT ![w] = "responded"]
  /\ UNCHANGED <<req, current_vals, locals, exc>>

\* Lines 207-208: the error as the text of the response.
download_Except(w) ==
  /\ pc[w] = "raised"
  /\ req[w].path = "/download"
  /\ resp' = [resp EXCEPT ![w] =
       IF Catches(exc[w])
       THEN Response("text", EmptyForm, <<>>, <<>>,
                     <<"Error generating CSV: ", ErrStr(exc[w])>>)
       ELSE ServerError(exc[w])]
  /\ pc' = [pc EXCEPT ![w] = "responded"]
  /\ UNCHANGED <<req, current_vals, locals, exc>>

\* The response is sent and the call's locals are gone.
Finish(w) ==
  /\ pc[w] = "responded"
  /\ pc' = [pc EXCEPT ![w] = "idle"]
  /\ req' = [req EXCEPT ![w] = NoRequest]
  /\ current_vals' = [current_vals EXCEPT ![w] = EmptyForm]
  /\ df' = [df EXCEPT ![w] = None]
  /\ lim_idx' = [lim_idx EXCEPT ![w] = None]
  /\ conversion' = [conversion EXCEPT ![w] = None]
  /\ nu_lim' = [nu_lim EXCEPT ![w] = None]
  /\ n0_lim' = [n0_lim EXCEPT ![w] = None]
  /\ xi' = [xi EXCEPT ![w] = None]
  /\ conv_list' = [conv_list EXCEPT ![w] = None]
  /\ comp_df' = [comp_df EXCEPT ![w] = None]
  /\ exc' = [exc EXCEPT ![w] = NoErr]
  /\ resp' = [resp EXCEPT ![w] = NoResponse]

\* ------------------------------------------------------------ specifications

\* The server: any interleaving of the workers' handlers.
Next ==
  \E w \in Workers :
    \/ index_Begin(w)
    \/ download_Begin(w)
    \/ ps_BuildFrame(w)
    \/ ps_SelectLimiting(w)
    \/ ps_MainTable(w)
    \/ ps_Comparison(w)
    \/ index_Render(w)
    \/ index_Except(w)
    \/ download_Respond(w)
    \/ download_Except(w)
    \/ Finish(w)

Spec == Init /\ [][Next]_vars

\* The engine alone: one call for each form of EngineForms.
NextEngine ==
  \/ Call(1)
  \/ ps_BuildFrame(1)
  \/ ps_SelectLimiting(1)
  \/ ps_MainTable(1)
  \/ ps_Comparison(1)

SpecEngine == Init /\ [][NextEngine]_vars

\* ------------------------------------------- process_stoichiometry, as a whole

\* Lines 118-153 as one function of the form: the exception raised, or the
\* pair of frames returned.
process_stoichiometry(form) ==
  IF FrameStepError(form) # NoErr
  THEN [exc |-> FrameStepError(form), main |-> None, comp |-> None]
  ELSE
    LET frame == InputFrame(form)
        idx == IntVal(form.lim_index) - 1
        nl == Loc(frame, idx, ColNu)
        fl == Loc(frame, idx, ColN0)
        toks == ConvTokens(form.multi_conv)
    IN  IF nl = None \/ fl = None
        THEN [exc |-> Err("KeyError", "", IntStr(idx)), main |-> None, comp |-> None]
        ELSE IF NotNegative(nl[1])
        THEN [exc |-> Err("ValueError", MsgLimiting, <<>>), main |-> None, comp |-> None]
        ELSE IF \E i \in 1..Len(toks) : ~FloatOk(toks[i])
        THEN [exc |-> Err("ValueError", MsgFloat, FirstBad(toks)),
              main |-> None, comp |-> None]
        ELSE
          LET main == MainFrame(frame, Extent(fl[1], FloatVal(form.conversion), nl[1]))
          IN  [exc |-> NoErr, main |-> main,
               comp |-> CompFrame(CompBase(main), main, fl[1], nl[1], NumericVals(toks))]

\* ------------------------------------------------------------------- claims

\* What the claims say of a request, read off its posted texts.
FormOf(w) == req[w].form
\* The numeric fields read as numbers: the request is a CalculationRequest.
Typed(f) == FrameError(f) = NoErr /\ IntOk(f.lim_index) /\ FloatOk(f.conversion)
LimIndex(f) == IntVal(f.lim_index)
InRange(f) == LimIndex(f) \in 1..NumSpecies
NuOf(f, i) == FloatVal(f.nu[i])
N0Of(f, i) == FloatVal(f.n0[i])
MwOf(f, i) == FloatVal(f.mw[i])
ConvOf(f) == FloatVal(f.conversion)
\* "valid request": lim_index in range and a negative limiting coefficient.
ValidReq(f) == Typed(f) /\ InRange(f) /\ NuOf(f, LimIndex(f))[1] < 0
\* The comparison text holds a piece that, stripped, is no number.
BadComp(f) ==
  \E i \in 1..Len(Split(f.multi_conv, ",")) : ~FloatOk(Strip(Split(f.multi_conv, ",")[i]))
\* The call has run lines 137-144.
AfterMain(w) == pc[w] \in {"ps_comp", "returned", "raised"} /\ xi[w] # None
Ended(w) == pc[w] \in {"returned", "raised"}
IsParseError(e) == e.type = "ValueError" /\ e.msg \in {MsgToNumeric, MsgInt, MsgFloat}
\* xi as the specification writes it, from the request alone.
XiOf(f, x) ==
  FDiv(FMul(N0Of(f, LimIndex(f)), x), <<Abs(NuOf(f, LimIndex(f))[1]), NuOf(f, LimIndex(f))[2]>>)

\* C1: whenever the row selected by lim_index has a coefficient >= 0, zero
\* included, the call never gets past the check: it ends raising the
\* validation error and returns no frame, whatever the conversion, the feeds,
\* the molar masses, the other coefficients and the comparison text are.
C1_NonNegativeLimitingRejected ==
  \A w \in Workers :
    (Typed(FormOf(w)) /\ InRange(FormOf(w))
       /\ NuOf(FormOf(w), LimIndex(FormOf(w)))[1] >= 0)
    => /\ pc[w] \in {"ps_frame", "ps_select", "raised"}
       /\ xi[w] = None /\ comp_df[w] = None
       /\ pc[w] = "raised" => exc[w] = Err("ValueError", MsgLimiting, <<>>)

\* C1 witness: a limiting coefficient of exactly zero rejected although the
\* comparison text is malformed as well.
C1_Witness ==
  \E w \in Workers :
    /\ pc[w] = "raised" /\ exc[w].msg = MsgLimiting
    /\ Typed(FormOf(w)) /\ InRange(FormOf(w))
    /\ NuOf(FormOf(w), LimIndex(FormOf(w))) = Zero
    /\ BadComp(FormOf(w))

\* C2: an integer lim_index outside 1..4 makes the call fail with the lookup
\* error of the missing row and return no frame; a lim_index inside 1..4
\* selects row lim_index - 1 of the table as the limiting reactant.
C2_LimIndexRange ==
  \A w \in Workers :
    /\ (Typed(FormOf(w)) /\ ~InRange(FormOf(w)))
       => /\ pc[w] \in {"ps_frame", "ps_select", "raised"}
          /\ nu_lim[w] = None /\ xi[w] = None /\ comp_df[w] = None
          /\ pc[w] = "raised"
             => exc[w] = Err("KeyError", "", IntStr(LimIndex(FormOf(w)) - 1))
    /\ (Typed(FormOf(w)) /\ InRange(FormOf(w)) /\ pc[w] = "raised")
       => exc[w].type # "KeyError"
    /\ nu_lim[w] # None
       => /\ InRange(FormOf(w))
          /\ nu_lim[w] = Some(NuOf(FormOf(w), LimIndex(FormOf(w))))
          /\ n0_lim[w] = Some(N0Of(FormOf(w), LimIndex(FormOf(w))))

\* C2 witness: lim_index 0, one below the range, has failed the lookup.
C2_Witness ==
  \E w \in Workers :
    /\ pc[w] = "raised" /\ exc[w].type = "KeyError"
    /\ Typed(FormOf(w)) /\ LimIndex(FormOf(w)) = 0

\* C3 as stated: a comparison text with a piece that is no number always
\* makes the call fail with a parse error.
C3_AsStated ==
  \A w \in Workers :
    (Ended(w) /\ BadComp(FormOf(w))) => (pc[w] = "raised" /\ IsParseError(exc[w]))

\* C3 as amended: a comparison text with a piece that is no number (an empty
\* piece included) never yields a frame, whole or partial, and no piece is
\* skipped; the failure is the parse error of the first such piece when the
\* request is otherwise valid, and the earlier index or validation error of
\* lines 131-135 when it is not.
C3_BadTokenFails ==
  \A w \in Workers :
    BadComp(FormOf(w))
    => /\ pc[w] # "returned"
       /\ conv_list[w] = None /\ comp_df[w] = None
       /\ (pc[w] = "raised" /\ ValidReq(FormOf(w)))
          => /\ exc[w].type = "ValueError" /\ exc[w].msg = MsgFloat
             /\ ~FloatOk(exc[w].arg)
       /\ (pc[w] = "raised" /\ Typed(FormOf(w)) /\ ~ValidReq(FormOf(w)))
          => \/ exc[w].type = "KeyError"
             \/ exc[w] = Err("ValueError", MsgLimiting, <<>>)

\* C3 witness: an otherwise valid request whose comparison text ends in a
\* comma has failed on the empty last piece.
C3_Witness ==
  \E w \in Workers :
    /\ pc[w] = "raised" /\ ValidReq(FormOf(w))
    /\ exc[w] = Err("ValueError", MsgFloat, <<>>)
    /\ Len(FormOf(w).multi_conv) > 1
    /\ FormOf(w).multi_conv[Len(FormOf(w).multi_conv)] = ","

C5_ComparisonAgreesWithMain ==
  \A w \in Workers :
    pc[w] = "returned"
    => \A k \in 1..Len(conv_list[w][1]) :
         conv_list[w][1][k] = conversion[w][1]
         => /\ HasCol(comp_df[w], ColX(conv_list[w][1][k]))
            /\ GetCol(comp_df[w], ColX(conv_list[w][1][k])) = GetCol(df[w], ColFinal)

\* C5 witness: a returned call whose comparison list holds the main
\* conversion, with a non-zero extent.
C5_Witness ==
  \E w \in Workers :
    /\ pc[w] = "returned" /\ xi[w] # Some(Zero)
    /\ \E k \in 1..Len(conv_list[w][1]) : conv_list[w][1][k] = conversion[w][1]

\* C6: the comparison frame has species, initial feed and then one column
\* for each entry of the comparison list, in order, repeated values included.
C6_OneColumnPerEntry ==
  \A w \in Workers :
    pc[w] = "returned"
    => /\ Len(comp_df[w]) = 2 + Len(conv_list[w][1])
       /\ \A k \in 1..Len(conv_list[w][1]) :
            k + 2 <= Len(comp_df[w]) => comp_df[w][k + 2][1] = ColX(conv_list[w][1][k])

\* The rows' values the specification derives from the request and xi.
FinalOf(f, x) == [i \in Rows |-> FAdd(N0Of(f, i), FMul(NuOf(f, i), x))]
MassOf(f, x) == [i \in Rows |-> FMul(FinalOf(f, x)[i], MwOf(f, i))]
ZeroTotal(w) ==
  \/ FSum(GetCol(df[w], ColFinal)) = Zero
  \/ FSum(GetCol(df[w], ColMass)) = Zero

\* C7 as stated: a request whose final flows, or final masses, sum to zero
\* never fails: the call returns both frames.
C7_AsStated ==
  \A w \in Workers :
    (Ended(w) /\ AfterMain(w) /\ ZeroTotal(w)) => pc[w] = "returned"

\* C7 as amended: a zero total of the final flows (of the final masses) is no
\* error.  Every mole fraction (mass fraction) is then non-finite, the
\* change, final flow and final mass columns are computed as usual, and,
\* provided every piece of the comparison text is a number, the call returns
\* both frames with the comparison columns computed as usual.
C7_ZeroTotalPropagates ==
  \A w \in Workers :
    AfterMain(w)
    => LET f == FormOf(w)
           x == XiOf(f, ConvOf(f))
       IN  /\ FSum(GetCol(df[w], ColFinal)) = Zero
              => \A i \in Rows : ~IsFinite(GetCol(df[w], ColMoleFrac)[i])
           /\ FSum(GetCol(df[w], ColMass)) = Zero
              => \A i \in Rows : ~IsFinite(GetCol(df[w], ColMassFrac)[i])
           /\ ZeroTotal(w)
              => /\ GetCol(df[w], ColChange) = [i \in Rows |-> FMul(NuOf(f, i), x)]
                 /\ GetCol(df[w], ColFinal) = FinalOf(f, x)
                 /\ GetCol(df[w], ColMass) = MassOf(f, x)
           /\ (ZeroTotal(w) /\ Ended(w) /\ ~BadComp(f))
              => /\ pc[w] = "returned"
                 /\ \A k \in 1..Len(conv_list[w][1]) :
                      GetCol(comp_df[w], ColX(conv_list[w][1][k]))
                        = FinalOf(f, XiOf(f, conv_list[w][1][k]))

\* C7 witness: a returned call whose final flows sum to zero, with an
\* infinite and an undefined mole fraction among its rows.
C7_Witness ==
  \E w \in Workers :
    /\ pc[w] = "returned"
    /\ FSum(GetCol(df[w], ColFinal)) = Zero
    /\ \E i \in Rows : GetCol(df[w], ColMoleFrac)[i] = PosInf
    /\ \E i \in Rows : GetCol(df[w], ColMoleFrac)[i] = NaN

\* C8: a valid request with conversion 0 has xi = 0, a change of 0 and
\* final_flow = initial_feed in every row; a limiting feed of 0 gives xi = 0
\* at any conversion, and neither is an error: lines 137-144 raise nothing.
C8_NoProgress ==
  \A w \in Workers :
    ValidReq(FormOf(w))
    => LET f == FormOf(w)
       IN  /\ (pc[w] \in {"ps_comp", "returned", "raised"} /\ ConvOf(f) = Zero)
              => /\ xi[w] = Some(Zero)
                 /\ \A i \in Rows :
                      /\ GetCol(df[w], ColChange)[i] = Zero
                      /\ GetCol(df[w], ColFinal)[i] = N0Of(f, i)
           /\ (pc[w] \in {"ps_comp", "returned", "raised"} /\ N0Of(f, LimIndex(f)) = Zero)
              => xi[w] = Some(Zero)
           /\ (pc[w] = "raised" /\ (ConvOf(f) = Zero \/ N0Of(f, LimIndex(f)) = Zero))
              => (xi[w] # None /\ BadComp(f))

\* C8 witness: a returned call at conversion 0 whose limiting feed and
\* other feeds are not all zero.
C8_Witness ==
  \E w \in Workers :
    /\ pc[w] = "returned" /\ ConvOf(FormOf(w)) = Zero
    /\ N0Of(FormOf(w), LimIndex(FormOf(w))) # Zero
    /\ xi[w] = Some(Zero)

\* What each route answers to a request, from the request alone.
Outcome(r) ==
  IF r.method = "GET" THEN Page(DefaultVals, <<>>, <<>>)
  ELSE LET res == process_stoichiometry(r.form)
       IN  IF r.path = "/"
           THEN IF res.exc = NoErr
                THEN Page(r.form, <<ToHtml(res.main, "%.3f"), ToHtml(res.comp, "%.2f")>>, <<>>)
                ELSE Page(r.form, <<>>, ErrStr(res.exc))
           ELSE IF res.exc = NoErr
                THEN Response("csv", EmptyForm, <<>>, <<>>, ToCsv(res.main))
                ELSE Response("text", EmptyForm, <<>>, <<>>,
                              <<"Error generating CSV: ", ErrStr(res.exc)>>)

\* C9: under any interleaving of requests to / and /download, a response is
\* a function of its own request's fields: equal requests get equal
\* responses, whatever the other workers are doing or did before, and a GET of
\* / renders the fixed default values.
C9_ResponseDependsOnOwnRequest ==
  /\ \A w \in Workers : pc[w] = "responded" => resp[w] = Outcome(req[w])
  /\ \A v, w \in Workers :
       (pc[v] = "responded" /\ pc[w] = "responded" /\ req[v] = req[w])
       => resp[v] = resp[w]
  /\ \A w \in Workers :
       (pc[w] = "responded" /\ req[w].method = "GET") => resp[w].vals = DefaultVals

\* C9 witness: a GET answered while another worker is in the middle of a
\* POST whose fields it has stored in its current_vals.
C9_Witness ==
  \E v, w \in Workers :
    /\ v # w
    /\ pc[w] = "responded" /\ req[w].method = "GET"
    /\ pc[v] \in {"ps_select", "ps_main", "ps_comp"}
    /\ current_vals[v] \notin {EmptyForm, DefaultVals}

\* {% if error %}: the alert is rendered for a non-empty message.
ErrorShown(r) == r.error # <<>> /\ (r.error[1] # "" \/ r.error[2] # <<>>)
\* {% if tables %}: the result section is rendered.
TablesShown(r) == r.tables # <<>>

\* C10: no failure of the engine escapes a handler.  A POST to / is answered
\* with the page echoing the posted fields and carrying either the two
\* tables or the error message, never both and never neither; a POST to
\* /download is answered with the CSV of the main frame computed from the
\* posted fields, or with the error text.
C10_FailuresAreCaught ==
  \A w \in Workers :
    pc[w] = "responded"
    => LET res == process_stoichiometry(req[w].form)
       IN  /\ resp[w].kind # "500"
           /\ (req[w].method = "POST" /\ req[w].path = "/")
              => /\ resp[w].kind = "page"
                 /\ resp[w].vals = req[w].form
                 /\ TablesShown(resp[w]) # ErrorShown(resp[w])
                 /\ ErrorShown(resp[w]) <=> res.exc # NoErr
                 /\ ErrorShown(resp[w]) => resp[w].error = ErrStr(res.exc)
           /\ (req[w].method = "POST" /\ req[w].path = "/download")
              => \/ /\ res.exc = NoErr
                    /\ resp[w].kind = "csv"
                    /\ resp[w].body = ToCsv(res.main)
                 \/ /\ res.exc # NoErr
                    /\ resp[w].kind = "text"
                    /\ resp[w].body = <<"Error generating CSV: ", ErrStr(res.exc)>>

\* C10 witness: both routes have answered a request whose lim_index is out
\* of range, one with the error page and one with the error text.
C10_Witness ==
  \E v, w \in Workers :
    /\ pc[v] = "responded" /\ pc[w] = "responded"
    /\ req[v].path = "/" /\ req[w].path = "/download"
    /\ exc[v].type = "KeyError" /\ exc[w].type = "KeyError"
    /\ resp[v].kind = "page" /\ ErrorShown(resp[v])
    /\ resp[w].kind = "text"

====
